---- MODULE Spec2Model ----
(***************************************************************************)
(* Recovery Orchestration Engine                                           *)
(* (src/incident-response/recovery/recovery_orchestrator.py).              *)
(*                                                                         *)
(* The engine is a synchronous, recursive interpreter of a plan:           *)
(* initiate_recovery -> _start_recovery_sequence -> _execute_recovery_phase*)
(* -> _execute_recovery_task -> _check_phase_completion ->                 *)
(* _execute_recovery_phase(next) ...  The call stack of the calling thread *)
(* is the variable `stack`; one frame is one activation of                 *)
(* _execute_recovery_phase.  Task objects live in the plan template and    *)
(* are shared by every instance spawned from it (the instance holds a      *)
(* reference to the plan, line 467), so their runtime fields are the       *)
(* variable `tasks`, indexed by system type.                               *)
(***************************************************************************)
EXTENDS Integers, Sequences, FiniteSets, TLC

\* ------------------------------------------------------------------ bounds
MaxRecoveries == 2      \* initiate_recovery calls in one behaviour
MaxRollbacks == 2       \* rollback_recovery calls in one behaviour
MaxClock == 1           \* last value of the wall clock (seconds)
MaxGranularity == 2     \* task constructions per tick of datetime.now()
MaxSystemTypes == 1     \* distinct system types recovered in one behaviour
MaxCalls == 3           \* initiate_recovery and rollback_recovery calls together
ConcRecoveries == 1     \* initiate_recovery calls next to the monitoring thread
ConcRollbacks == 1      \* rollback_recovery calls next to the monitoring thread
ConcCalls == 2          \* both together, next to the monitoring thread
MaxCommands == 4        \* commands of a task run on its own
MaxCallbacks == 2       \* callbacks registered per list
CbRecoveries == 1       \* initiate_recovery calls with callbacks registered
StoreRecoveries == 1    \* initiate_recovery calls with a store whose writes may fail
TwoRecoveries == 2      \* initiate_recovery calls of two threads next to each other
MaxQueries == 1         \* get_recovery_status calls of the monitoring thread

\* ------------------------------------------------------- enums (l. 27-51)
PENDING == "pending"
IN_PROGRESS == "in_progress"
COMPLETED == "completed"
FAILED == "failed"
SKIPPED == "skipped"
RecoveryStatus == {PENDING, IN_PROGRESS, COMPLETED, FAILED, SKIPPED}

ASSESSMENT == "assessment"
CONTAINMENT == "containment"
ERADICATION == "eradication"
RECOVERY == "recovery"
POST_INCIDENT == "post_incident"

IMMEDIATE == 1
HIGH == 2
NORMAL == 3
LOW == 4

None == "None"
\* a datetime.now() reading kept in a started_at / completed_at field; the
\* engine never compares or computes with these readings
Stamp == "datetime"
NoTask == 0

\* ------------------------------------------------------------ plan data
\* A task template.  commands / rollback_commands hold the NUMBER of
\* shell commands of the list; the command text is opaque to the engine.
Task(id, phase, priority, deps, ncmd, nrb) ==
    [id |-> id, phase |-> phase, priority |-> priority, dependencies |-> deps,
     commands |-> ncmd, rollback_commands |-> nrb]

database_recovery ==
    << Task("DB-ASSESS-001", ASSESSMENT, IMMEDIATE, <<>>, 4, 0),
       Task("DB-CONTAIN-001", CONTAINMENT, IMMEDIATE, <<"DB-ASSESS-001">>, 2, 2),
       Task("DB-RECOVER-001", RECOVERY, IMMEDIATE, <<"DB-CONTAIN-001">>, 3, 3) >>

webapp_recovery ==
    << Task("WEB-ASSESS-001", ASSESSMENT, HIGH, <<>>, 4, 0),
       Task("WEB-RECOVER-001", RECOVERY, HIGH, <<"WEB-ASSESS-001">>, 4, 2) >>

network_recovery ==
    << Task("NET-ASSESS-001", ASSESSMENT, IMMEDIATE, <<>>, 4, 0),
       Task("NET-RECOVER-001", RECOVERY, IMMEDIATE, <<"NET-ASSESS-001">>, 3, 0) >>

\* Three plans a client of the engine puts into the recovery_plans dictionary
\* next to the predefined ones: the A/B scenario of the design (B depends on
\* A, same phase, a further task in the next phase), a plan with a task
\* in each of the five phases, and a plan without tasks.
scenario_recovery ==
    << Task("A", ASSESSMENT, IMMEDIATE, <<>>, 1, 1),
       Task("B", ASSESSMENT, HIGH, <<"A">>, 1, 0),
       Task("C", CONTAINMENT, IMMEDIATE, <<>>, 1, 0) >>

full_recovery ==
    << Task("F1", ASSESSMENT, IMMEDIATE, <<>>, 1, 1),
       Task("F2", CONTAINMENT, IMMEDIATE, <<"F1">>, 1, 1),
       Task("F3", ERADICATION, IMMEDIATE, <<"F2">>, 1, 0),
       Task("F4", RECOVERY, IMMEDIATE, <<"F3">>, 1, 0),
       Task("F5", POST_INCIDENT, IMMEDIATE, <<"F4">>, 1, 0) >>

empty_recovery == <<>>

\* A plan whose tasks all sit in one phase: P depends on R, which the
\* priority order visits later; Q and R have no dependency edge between them.
ordering_recovery ==
    << Task("P", ASSESSMENT, IMMEDIATE, <<"R">>, 1, 0),
       Task("Q", ASSESSMENT, HIGH, <<>>, 1, 0),
       Task("R", ASSESSMENT, NORMAL, <<>>, 1, 0) >>

\* A plan whose list order is not its priority order, with two tasks of the
\* same priority: all in one phase, no dependencies.
priority_recovery ==
    << Task("X", ASSESSMENT, HIGH, <<>>, 1, 0),
       Task("Y", ASSESSMENT, IMMEDIATE, <<>>, 1, 0),
       Task("Z", ASSESSMENT, HIGH, <<>>, 1, 0) >>

recovery_plans ==
    [s \in {"database", "webapp", "network", "scenario", "full", "empty", "ordering",
            "priority"} |->
        CASE s = "database" -> database_recovery
          [] s = "webapp" -> webapp_recovery
          [] s = "network" -> network_recovery
          [] s = "scenario" -> scenario_recovery
          [] s = "full" -> full_recovery
          [] s = "empty" -> empty_recovery
          [] s = "ordering" -> ordering_recovery
          [] s = "priority" -> priority_recovery]

SystemTypes == DOMAIN recovery_plans
\* the system types a caller may pass: the registered ones and one that is not
RequestedTypes == SystemTypes \cup {"mainframe"}
Incidents == {"INC-1"}
Threads == {"main"}
\* the threads of the process that may call the orchestrator: the main
\* thread and one more (the orchestrator object is shared, nothing in it is
\* bound to a thread)
Workers == Threads \cup {"worker"}
\* the incidents two threads handle next to each other
TwoIncidents == {"INC-1", "INC-2"}
Outcomes == {"ok", "fail"}
\* what one command of _run_task_commands can do: exit 0, exit non-zero,
\* run into the timeout of subprocess.run, raise another exception
CommandOutcomes == {"ok", "fail", "timeout", "error"}
\* what one registered callback can do
CallbackOutcomes == {"ok", "raise"}

TaskIdx(s) == 1..Len(recovery_plans[s])
TaskIds(s) == {recovery_plans[s][k].id : k \in TaskIdx(s)}
IdxOf(s, id) == CHOOSE k \in TaskIdx(s) : recovery_plans[s][k].id = id

\* ------------------------------------------------------------------ state
VARIABLES
    now,                \* int(time.time()), the seconds of the wall clock
    created_at,         \* created_at[s][k]: RecoveryTask.created_at of the templates
    tasks,              \* tasks[s][k]: runtime fields of the task objects of plan s
    active_recoveries,  \* recovery id -> recovery instance (l. 94, 463-474)
    db,                 \* table recovery_tasks, primary key id (l. 140-159)
    stack,              \* stack[t]: frames of _execute_recovery_phase of thread t
    ret,                \* ret[t]: what the last API call of thread t returned
    ended,              \* history: ended[rid][k] = how the visit of task k by rid ended
    n_init,             \* number of initiate_recovery calls so far
    n_rb,               \* number of rollback_recovery calls so far
    setup,              \* setup[t]: where thread t is in initiate_recovery l. 474-494
    query,              \* the get_recovery_status call of the monitoring thread
    completion_callbacks,   \* number of callbacks in self.completion_callbacks (l. 96)
    failure_callbacks,      \* number of callbacks in self.failure_callbacks (l. 97)
    invoked,            \* history: the callbacks the last _execute_recovery_task called
    cmd,                \* a run of _run_task_commands on its own: input and result
    incidents           \* self.incidents of the incident response system (the monitor's view)

\* the variables that only the callback, the command and the monitor steps write
cbvars == <<completion_callbacks, failure_callbacks, invoked, cmd, incidents>>

vars == <<now, created_at, tasks, active_recoveries, db, stack, ret, ended, n_init, n_rb,
          setup, query, completion_callbacks, failure_callbacks, invoked, cmd, incidents>>

\* len(self.completion_callbacks) / len(self.failure_callbacks)
Registered(kind) ==
    IF kind = "completion" THEN completion_callbacks ELSE failure_callbacks

RecoveryId(incident_id, system_type, t) == <<incident_id, system_type, t>>

\* ---------------------------------------------------------------- helpers
\* list.sort(key=...) is stable: equal keys keep their list order.
RECURSIVE StableSort(_, _)
StableSort(S, key) ==
    IF S = {} THEN <<>>
    ELSE LET m == CHOOSE x \in S : \A y \in S :
                      key[x] < key[y] \/ (key[x] = key[y] /\ x <= y)
         IN <<m>> \o StableSort(S \ {m}, key)

phase_order == <<ASSESSMENT, CONTAINMENT, ERADICATION, RECOVERY, POST_INCIDENT>>
PhaseIndex(phase) == CHOOSE i \in 1..Len(phase_order) : phase_order[i] = phase

GetNextPhase(current_phase) ==
    LET current_index == PhaseIndex(current_phase)
    IN IF current_index < Len(phase_order) THEN phase_order[current_index + 1] ELSE None

\* recovery["task_status"].get(id, {}).get("status")
MapStatus(recovery, id) ==
    IF id \in DOMAIN recovery.task_status THEN recovery.task_status[id] ELSE None

\* slips of _check_dependencies: no check at all / a dependency only has to
\* be known to the status map
CheckDependencies_Ignored(task, recovery) == TRUE

CheckDependencies_PresentOnly(task, recovery) ==
    \A i \in 1..Len(task.dependencies) :
        task.dependencies[i] \in DOMAIN recovery.task_status

CheckDependencies(task, recovery) ==
    \A i \in 1..Len(task.dependencies) :
        MapStatus(recovery, task.dependencies[i]) = COMPLETED

\* slip of _execute_recovery_phase: the tasks of the phase are left in the
\* order of the plan list
PhaseTasks_ListOrder(s, phase) ==
    StableSort({k \in TaskIdx(s) : recovery_plans[s][k].phase = phase},
               [k \in TaskIdx(s) |-> 0])

\* phase_tasks of _execute_recovery_phase: the plan's tasks of the phase,
\* sorted by priority value
PhaseTasks(s, phase) ==
    StableSort({k \in TaskIdx(s) : recovery_plans[s][k].phase = phase},
               [k \in TaskIdx(s) |-> recovery_plans[s][k].priority])

\* slips of the test of _check_phase_completion: one completed task is
\* enough / every task that is no longer pending counts
PhaseComplete_AnyCompleted(recovery, s, phase) ==
    \E k \in TaskIdx(s) :
        /\ recovery_plans[s][k].phase = phase
        /\ MapStatus(recovery, recovery_plans[s][k].id) = COMPLETED

PhaseComplete_Terminal(recovery, s, phase) ==
    \A k \in TaskIdx(s) :
        recovery_plans[s][k].phase = phase => tasks[s][k].status # PENDING

\* the test of _check_phase_completion (l. 617-623)
PhaseComplete(recovery, s, phase) ==
    LET phase_tasks == {k \in TaskIdx(s) : recovery_plans[s][k].phase = phase}
        completed_tasks == {k \in phase_tasks :
                               MapStatus(recovery, recovery_plans[s][k].id) = COMPLETED}
    IN Cardinality(completed_tasks) = Cardinality(phase_tasks)

\* slip of all_successful: only a non-zero exit code clears it
RunTaskCommands_ExitCodeOnly(outs) == \A i \in DOMAIN outs : outs[i] # "fail"

\* all_successful of _run_task_commands (l. 575, 598, 604, 607)
RunTaskCommands(outs) == \A i \in DOMAIN outs : outs[i] = "ok"

\* One entry of task.logs / task.error_logs: the fixed text of the message
\* and, for the messages that quote the command, the index of the command.
\* Commands are taken to write nothing to stdout / stderr, so the engine's
\* own messages are the only entries.
LogEntry(marker, command) == [marker |-> marker, command |-> command]

\* the entries an outcome sequence adds, in command order, for the outcomes
\* in `which`
RECURSIVE Entries(_, _, _, _)
Entries(outs, i, which, marker) ==
    IF i > Len(outs) THEN <<>>
    ELSE (IF outs[i] \in which THEN <<marker[i]>> ELSE <<>>)
         \o Entries(outs, i + 1, which, marker)

\* the entry of task.error_logs for a command that did not exit 0
\* (l. 596-597, 602-606); the timeout entry quotes the command
ErrorEntry(outcome, i) ==
    CASE outcome = "fail" -> LogEntry("Command failed with exit code", 0)
      [] outcome = "timeout" -> LogEntry("Command timed out", i)
      [] OTHER -> LogEntry("Command execution error", 0)

\* task.logs.append of _run_task_commands (l. 600)
TaskLogs(outs) ==
    Entries(outs, 1, {"ok"},
            [i \in DOMAIN outs |-> LogEntry("Command completed successfully", 0)])

\* slip of the except clauses: a timeout is logged like a failed command
TaskErrorLogs_OneMarker(outs) ==
    Entries(outs, 1, {"fail", "timeout", "error"},
            [i \in DOMAIN outs |-> ErrorEntry("fail", i)])

\* task.error_logs.append of _run_task_commands (l. 596-597, 602-606)
TaskErrorLogs(outs) ==
    Entries(outs, 1, {"fail", "timeout", "error"},
            [i \in DOMAIN outs |-> ErrorEntry(outs[i], i)])

\* the task object after _run_task_commands and the assignments that
\* follow it in _execute_recovery_task (l. 536-540, 557-558)
ExecutedTask(rt, outs) ==
    [rt EXCEPT !.status = IF RunTaskCommands(outs) THEN COMPLETED ELSE FAILED,
               !.completed_at = Stamp,
               !.logs = @ \o TaskLogs(outs),
               !.error_logs = @ \o TaskErrorLogs(outs)]

\* slip of the branch of _execute_recovery_task: the completion callbacks
\* are called whatever the commands did
CallbackGroup_CompletionOnly(success) == "completion"

\* the list of callbacks _execute_recovery_task goes through: the
\* completion callbacks in the success branch (l. 551), the failure
\* callbacks in the other (l. 561)
CallbackGroup(success) == IF success THEN "completion" ELSE "failure"

\* one call callback(recovery_id, task) (l. 553, 563): the list it was taken
\* from, the status the task object had when it was handed over, and what
\* the callback did
CallbackCall(kind, task, outcome) ==
    [kind |-> kind, status |-> task.status, outcome |-> outcome]

\* slip of the callback loops: no try/except, the first exception of a
\* callback leaves the loop and the function
RECURSIVE RunCallbacks_Unguarded(_, _, _)
RunCallbacks_Unguarded(kind, task, outs) ==
    IF outs = <<>> THEN [invoked |-> <<>>, raised |-> FALSE]
    ELSE IF Head(outs) = "raise"
         THEN [invoked |-> <<CallbackCall(kind, task, "raise")>>, raised |-> TRUE]
         ELSE LET rest == RunCallbacks_Unguarded(kind, task, Tail(outs))
              IN [invoked |-> <<CallbackCall(kind, task, Head(outs))>> \o rest.invoked,
                  raised |-> rest.raised]

\* the callback loops of _execute_recovery_task (l. 551-555, 561-565): each
\* call sits in its own try/except Exception, so every callback of the list
\* is called and no exception leaves the loop
RECURSIVE RunCallbacks(_, _, _)
RunCallbacks(kind, task, outs) ==
    IF outs = <<>> THEN [invoked |-> <<>>, raised |-> FALSE]
    ELSE LET rest == RunCallbacks(kind, task, Tail(outs))
         IN [invoked |-> <<CallbackCall(kind, task, Head(outs))>> \o rest.invoked,
             raised |-> FALSE]

RunRollbackCommands(outs) == \A i \in DOMAIN outs : outs[i] = "ok"

\* the appends of _run_rollback_commands (l. 697-701)
RollbackLogs(outs) ==
    Entries(outs, 1, {"ok"},
            [i \in DOMAIN outs |-> LogEntry("Rollback command completed", i)])
RollbackErrorLogs(outs) ==
    Entries(outs, 1, {"fail"},
            [i \in DOMAIN outs |-> LogEntry("Rollback command failed", i)])

\* INSERT OR REPLACE INTO recovery_tasks ... keyed by task.id alone
SaveTaskToDb(store, task_id, rt, system_recovery_id) ==
    [id \in DOMAIN store \cup {task_id} |->
        IF id = task_id
        THEN [status |-> rt.status, started_at |-> rt.started_at,
              completed_at |-> rt.completed_at,
              system_recovery_id |-> system_recovery_id]
        ELSE store[id]]

NoId == <<>>

\* what an API call handed back to its caller: state is "running" while the
\* call is on the stack, "returned" or "raised" afterwards
Ret(op, state, rid, success, trace) ==
    [op |-> op, state |-> state, recovery_id |-> rid, success |-> success, trace |-> trace,
     value |-> <<>>]

\* what get_recovery_status handed back: value is <<>> for None and
\* <<snapshot>> for a dictionary
StatusRet(rid, value) ==
    [Ret("get_recovery_status", "returned", rid, TRUE, <<>>) EXCEPT !.value = value]

Frame(rid, phase, todo) == [recovery_id |-> rid, phase |-> phase, todo |-> todo, cur |-> NoTask]

Top(t) == stack[t][Len(stack[t])]
SetTop(t, f) == [stack EXCEPT ![t] = [@ EXCEPT ![Len(@)] = f]]

\* ------------------------------------------------- get_recovery_status
\* datetime.isoformat() of a timestamp field, None when the field is None (l. 761-762)
IsoStamp == "isoformat(datetime)"
IsoFormat(x) == IF x = Stamp THEN IsoStamp ELSE None

\* the two counts of get_recovery_status (l. 745-748), taken from the status map
CompletedCount(recovery, s) ==
    Cardinality({k \in TaskIdx(s) : MapStatus(recovery, recovery_plans[s][k].id) = COMPLETED})
FailedCount(recovery, s) ==
    Cardinality({k \in TaskIdx(s) : MapStatus(recovery, recovery_plans[s][k].id) = FAILED})

\* slip of progress_percentage: floor division
ProgressPercentage_Floor(completed_tasks, total_tasks) ==
    IF total_tasks > 0
    THEN [num |-> (completed_tasks * 100) \div total_tasks, den |-> 1]
    ELSE [num |-> 0, den |-> 1]

\* progress_percentage (l. 750) as the exact fraction num/den: the floating
\* point quotient is taken as the rational number it approximates
ProgressPercentage(completed_tasks, total_tasks) ==
    IF total_tasks > 0
    THEN [num |-> completed_tasks * 100, den |-> total_tasks]
    ELSE [num |-> 0, den |-> 1]

\* slip of task_details: no default for a task the status map does not hold
\* (None has no attribute value, the call raises)
TaskDetail_NoDefault(recovery, s, k) ==
    [id |-> recovery_plans[s][k].id,
     phase |-> recovery_plans[s][k].phase,
     status |-> MapStatus(recovery, recovery_plans[s][k].id),
     logs_count |-> Len(tasks[s][k].logs),
     error_logs_count |-> Len(tasks[s][k].error_logs)]

\* one element of task_details (l. 764-772); name and assigned_to are
\* constant texts of the template and left out
TaskDetail(recovery, s, k) ==
    [id |-> recovery_plans[s][k].id,
     phase |-> recovery_plans[s][k].phase,
     status |-> IF recovery_plans[s][k].id \in DOMAIN recovery.task_status
                THEN recovery.task_status[recovery_plans[s][k].id] ELSE PENDING,
     logs_count |-> Len(tasks[s][k].logs),
     error_logs_count |-> Len(tasks[s][k].error_logs)]

\* the dictionary get_recovery_status returns (l. 750-775), built from the
\* values q that the call has read
Reply(q) ==
    [recovery_id |-> q.recovery_id,
     incident_id |-> q.incident_id,
     system_type |-> q.system_type,
     status |-> q.status,
     progress_percentage |-> ProgressPercentage(q.completed_tasks, q.total_tasks),
     total_tasks |-> q.total_tasks,
     completed_tasks |-> q.completed_tasks,
     failed_tasks |-> q.failed_tasks,
     started_at |-> IsoFormat(q.started_at),
     completed_at |-> IsoFormat(q.completed_at),
     task_details |-> q.task_details]

\* the reply when every value is read in the current state
Snapshot(recovery_id, completed_tasks, failed_tasks) ==
    LET recovery == active_recoveries[recovery_id]
        s == recovery.system_type
    IN Reply([recovery_id |-> recovery_id,
              incident_id |-> recovery.incident_id,
              system_type |-> recovery.system_type,
              status |-> recovery.status,
              total_tasks |-> Len(recovery_plans[s]),
              completed_tasks |-> completed_tasks,
              failed_tasks |-> failed_tasks,
              started_at |-> recovery.started_at,
              completed_at |-> recovery.completed_at,
              task_details |-> [k \in TaskIdx(s) |-> TaskDetail(recovery, s, k)]])

\* get_recovery_status run without interruption (l. 735-775)
GetRecoveryStatus(recovery_id) ==
    IF recovery_id \notin DOMAIN active_recoveries THEN <<>>
    ELSE LET recovery == active_recoveries[recovery_id]
             s == recovery.system_type
         IN <<Snapshot(recovery_id, CompletedCount(recovery, s), FailedCount(recovery, s))>>

\* thread t is not between l. 474 and l. 494 of initiate_recovery
NoSetup == [pc |-> "none", recovery_id |-> NoId, todo |-> <<>>]

\* a task object as _execute_recovery_task hands it to _run_task_commands
\* (l. 529-536): IN_PROGRESS, nothing logged yet
StartedTask ==
    [status |-> IN_PROGRESS, started_at |-> Stamp, completed_at |-> None,
     logs |-> <<>>, error_logs |-> <<>>, metadata |-> {}]

\* _run_task_commands has not been run on its own
NoCmd == [pc |-> "idle", n |-> 0, outs |-> <<>>, ran |-> <<>>, task |-> StartedTask]

\* an incident the monitor has not seen contained yet
NoIncident ==
    [status |-> "open", system_type |-> None, recovery_initiated |-> FALSE,
     recovery_id |-> NoId, pc |-> "idle", slept |-> TRUE]

\* the monitoring thread has not called get_recovery_status
NoQuery == [pc |-> "idle", n |-> 0, recovery_id |-> NoId, value |-> <<>>]

\* ------------------------------------------------------------------- Init
Init ==
    /\ now = 0
    /\ \E g \in 1..MaxGranularity :
          created_at = [s \in SystemTypes |-> [k \in TaskIdx(s) |-> (k - 1) \div g]]
    /\ tasks = [s \in SystemTypes |-> [k \in TaskIdx(s) |->
                   [status |-> PENDING, started_at |-> None, completed_at |-> None,
                    logs |-> <<>>, error_logs |-> <<>>, metadata |-> {}]]]
    /\ active_recoveries = <<>>
    /\ db = <<>>
    /\ stack = [t \in Workers |-> <<>>]
    /\ ret = [t \in Workers |-> Ret("none", "returned", NoId, TRUE, <<>>)]
    /\ ended = <<>>
    /\ n_init = 0
    /\ n_rb = 0
    /\ setup = [t \in Workers |-> NoSetup]
    /\ query = NoQuery
    /\ completion_callbacks = 0
    /\ failure_callbacks = 0
    /\ invoked = <<>>
    /\ cmd = NoCmd
    /\ incidents = [i \in Incidents |-> NoIncident]

\* ---------------------------------------------------------------- actions
\* The clock is read only on entry to initiate_recovery (l. 460), so a tick
\* during a call is the same as a tick right after it: ticks are taken
\* between calls.
Tick ==
    /\ now < MaxClock
    /\ \A t \in Threads : stack[t] = <<>>
    /\ now' = now + 1
    /\ UNCHANGED <<created_at, tasks, active_recoveries, db, stack, ret, ended, n_init, n_rb, setup, query, cbvars>>

\* slip of initiate_recovery: the plan is looked up after the instance is
\* registered, so the error leaves an instance without tasks behind
InitiateUnknown_Registered(t, incident_id, system_type) ==
    /\ stack[t] = <<>>
    /\ n_init < MaxRecoveries
    /\ n_init + n_rb < MaxCalls
    /\ system_type \notin SystemTypes
    /\ LET recovery_id == RecoveryId(incident_id, "empty", now)
       IN /\ active_recoveries' =
                [r \in DOMAIN active_recoveries \cup {recovery_id} |->
                    IF r = recovery_id
                    THEN [incident_id |-> incident_id, system_type |-> "empty",
                          status |-> PENDING, started_at |-> None, completed_at |-> None,
                          task_status |-> <<>>]
                    ELSE active_recoveries[r]]
          /\ ended' = [r \in DOMAIN ended \cup {recovery_id} |->
                    IF r = recovery_id THEN <<>> ELSE ended[r]]
    /\ ret' = [ret EXCEPT ![t] = Ret("initiate_recovery", "raised", NoId, FALSE, <<>>)]
    /\ n_init' = n_init + 1
    /\ UNCHANGED <<now, created_at, tasks, db, stack, n_rb, setup, query, cbvars>>

\* initiate_recovery with an unregistered system type: raise ValueError (l. 456-457)
InitiateUnknown(t, incident_id, system_type) ==
    /\ stack[t] = <<>>
    /\ n_init < MaxRecoveries
    /\ n_init + n_rb < MaxCalls
    /\ system_type \notin SystemTypes
    /\ ret' = [ret EXCEPT ![t] = Ret("initiate_recovery", "raised", NoId, FALSE, <<>>)]
    /\ n_init' = n_init + 1
    /\ UNCHANGED <<now, created_at, tasks, active_recoveries, db, stack, ended, n_rb, setup, query, cbvars>>

\* initiate_recovery up to the start of the first phase loop (l. 454-485,
\* _start_recovery_sequence l. 490-497, _execute_recovery_phase l. 499-508)
InitiateCall(t, incident_id, system_type) ==
    /\ stack[t] = <<>>
    /\ n_init < MaxRecoveries
    /\ n_init + n_rb < MaxCalls
    /\ system_type \in SystemTypes
    /\ Cardinality({active_recoveries[r].system_type : r \in DOMAIN active_recoveries}
                    \cup {system_type}) <= MaxSystemTypes
    /\ LET recovery_id == RecoveryId(incident_id, system_type, now)
           recovery_instance ==
               [incident_id |-> incident_id, system_type |-> system_type,
                status |-> IN_PROGRESS, started_at |-> Stamp, completed_at |-> None,
                task_status |-> [id \in TaskIds(system_type) |-> PENDING]]
       IN /\ active_recoveries' =
                [r \in DOMAIN active_recoveries \cup {recovery_id} |->
                    IF r = recovery_id THEN recovery_instance ELSE active_recoveries[r]]
          /\ ended' = [r \in DOMAIN ended \cup {recovery_id} |->
                    IF r = recovery_id THEN [k \in TaskIdx(system_type) |-> None]
                    ELSE ended[r]]
          /\ stack' = [stack EXCEPT ![t] =
                          <<Frame(recovery_id, ASSESSMENT, PhaseTasks(system_type, ASSESSMENT))>>]
          /\ ret' = [ret EXCEPT ![t] = Ret("initiate_recovery", "running", recovery_id, TRUE, <<>>)]
    /\ n_init' = n_init + 1
    /\ UNCHANGED <<now, created_at, tasks, db, n_rb, setup, query,
                   completion_callbacks, failure_callbacks, invoked, cmd>>

\* initiate_recovery called by a client of the orchestrator
Initiate(t, incident_id, system_type) ==
    /\ InitiateCall(t, incident_id, system_type)
    /\ UNCHANGED incidents

\* loop body of _execute_recovery_phase, dependency check fails (l. 512-514)
SkipTask(t) ==
    /\ stack[t] # <<>>
    /\ LET f == Top(t)
           rid == f.recovery_id
           recovery == active_recoveries[rid]
           s == recovery.system_type
       IN /\ f.cur = NoTask
          /\ f.todo # <<>>
          /\ LET k == Head(f.todo) IN
             /\ ~CheckDependencies(recovery_plans[s][k], recovery)
             /\ tasks' = [tasks EXCEPT ![s][k].status = SKIPPED]
             /\ ended' = [ended EXCEPT ![rid][k] = SKIPPED]
             /\ stack' = SetTop(t, [f EXCEPT !.todo = Tail(f.todo)])
    /\ UNCHANGED <<now, created_at, active_recoveries, db, ret, n_init, n_rb, setup, query, cbvars>>

\* loop body of _execute_recovery_phase, dependencies met, and the head of
\* _execute_recovery_task (l. 512-533): IN_PROGRESS, started_at, first save
StartTask(t) ==
    /\ stack[t] # <<>>
    /\ LET f == Top(t)
           rid == f.recovery_id
           recovery == active_recoveries[rid]
           s == recovery.system_type
       IN /\ f.cur = NoTask
          /\ f.todo # <<>>
          /\ LET k == Head(f.todo)
                 rt == [tasks[s][k] EXCEPT !.status = IN_PROGRESS, !.started_at = Stamp]
             IN
             /\ CheckDependencies(recovery_plans[s][k], recovery)
             /\ tasks' = [tasks EXCEPT ![s][k] = rt]
             /\ db' = SaveTaskToDb(db, recovery_plans[s][k].id, rt, rid)
             /\ stack' = SetTop(t, [f EXCEPT !.cur = k, !.todo = Tail(f.todo)])
    /\ UNCHANGED <<now, created_at, active_recoveries, ret, ended, n_init, n_rb, setup, query, cbvars>>

\* the rest of _execute_recovery_task (l. 535-571) with
\* _check_phase_completion (l. 611-632) up to the recursive call
FinishTask(t) ==
    /\ stack[t] # <<>>
    /\ LET f == Top(t)
           rid == f.recovery_id
           recovery == active_recoveries[rid]
           s == recovery.system_type
           k == f.cur
       IN /\ k # NoTask
          /\ \E outs \in [1..recovery_plans[s][k].commands -> Outcomes] :
             \E cbs \in [1..Registered(CallbackGroup(RunTaskCommands(outs)))
                           -> CallbackOutcomes] :
             LET success == RunTaskCommands(outs)
                 task == recovery_plans[s][k]
                 rt == ExecutedTask(tasks[s][k], outs)
                 recovery1 == IF success
                              THEN [recovery EXCEPT !.task_status[task.id] = COMPLETED]
                              ELSE recovery
                 cb == RunCallbacks(CallbackGroup(success), rt, cbs)
                 complete == PhaseComplete(recovery1, s, task.phase)
                 next_phase == GetNextPhase(task.phase)
                 f1 == [f EXCEPT !.cur = NoTask]
             IN
             /\ tasks' = [tasks EXCEPT ![s][k] = rt]
             /\ ended' = [ended EXCEPT ![rid][k] = rt.status]
             /\ invoked' = cb.invoked
             \* an exception that leaves the callback loop leaves the whole
             \* call: no save, no phase check, initiate_recovery raises
             /\ ret' = IF cb.raised
                       THEN [ret EXCEPT ![t] =
                               Ret("initiate_recovery", "raised", NoId, FALSE, <<>>)]
                       ELSE ret
             /\ db' = IF cb.raised THEN db ELSE SaveTaskToDb(db, task.id, rt, rid)
             /\ IF cb.raised
                THEN /\ active_recoveries' = [active_recoveries EXCEPT ![rid] = recovery1]
                     /\ stack' = [stack EXCEPT ![t] = <<>>]
                ELSE IF complete /\ next_phase # None
                THEN /\ active_recoveries' = [active_recoveries EXCEPT ![rid] = recovery1]
                     /\ stack' = [stack EXCEPT ![t] =
                            Append([@ EXCEPT ![Len(@)] = f1],
                                   Frame(rid, next_phase, PhaseTasks(s, next_phase)))]
                ELSE IF complete
                THEN /\ active_recoveries' = [active_recoveries EXCEPT ![rid] =
                            [recovery1 EXCEPT !.status = COMPLETED, !.completed_at = Stamp]]
                     /\ stack' = SetTop(t, f1)
                ELSE /\ active_recoveries' = [active_recoveries EXCEPT ![rid] = recovery1]
                     /\ stack' = SetTop(t, f1)
    /\ UNCHANGED <<now, created_at, n_init, n_rb, setup, query,
                   completion_callbacks, failure_callbacks, cmd, incidents>>

\* the for loop of _execute_recovery_phase is exhausted: the activation
\* returns; when it was the first one, initiate_recovery returns the id (l. 488)
ReturnPhase(t) ==
    /\ stack[t] # <<>>
    /\ LET f == Top(t) IN
          /\ f.cur = NoTask
          /\ f.todo = <<>>
          /\ stack' = [stack EXCEPT ![t] = SubSeq(@, 1, Len(@) - 1)]
          /\ ret' = IF Len(stack[t]) = 1
                    THEN [ret EXCEPT ![t] = Ret("initiate_recovery", "returned", f.recovery_id, TRUE, <<>>)]
                    ELSE ret
    /\ UNCHANGED <<now, created_at, tasks, active_recoveries, db, ended, n_init, n_rb, setup, query, cbvars>>

\* completed_tasks of rollback_recovery (l. 664-666): the tasks the status
\* map holds as COMPLETED, sorted by created_at, reverse=True (stable)
RollbackOrder(recovery, s) ==
    StableSort({k \in TaskIdx(s) : MapStatus(recovery, recovery_plans[s][k].id) = COMPLETED},
               [k \in TaskIdx(s) |-> 0 - created_at[s][k]])

\* slip of the for loop of rollback_recovery: stop at the first failed rollback
RECURSIVE RollbackLoop_AbortOnFailure(_, _, _)
RollbackLoop_AbortOnFailure(order, s, outs) ==
    IF order = <<>> THEN <<>>
    ELSE LET k == Head(order)
             n == recovery_plans[s][k].rollback_commands
             o == [i \in 1..n |-> outs[<<k, i>>]]
         IN IF n > 0
            THEN IF RunRollbackCommands(o)
                 THEN <<[task |-> k, outs |-> o, success |-> TRUE]>>
                      \o RollbackLoop_AbortOnFailure(Tail(order), s, outs)
                 ELSE <<[task |-> k, outs |-> o, success |-> FALSE]>>
            ELSE RollbackLoop_AbortOnFailure(Tail(order), s, outs)

\* the for loop of rollback_recovery (l. 668-677): one entry per task whose
\* rollback commands were run, in the order they were run
RECURSIVE RollbackLoop(_, _, _)
RollbackLoop(order, s, outs) ==
    IF order = <<>> THEN <<>>
    ELSE LET k == Head(order)
             n == recovery_plans[s][k].rollback_commands
             o == [i \in 1..n |-> outs[<<k, i>>]]
         IN IF n > 0
            THEN <<[task |-> k, outs |-> o, success |-> RunRollbackCommands(o)]>>
                 \o RollbackLoop(Tail(order), s, outs)
            ELSE RollbackLoop(Tail(order), s, outs)

\* slip of all_successful: the flag is overwritten by each rollback
RollbackResult_LastOnly(trace) == trace = <<>> \/ trace[Len(trace)].success

\* what one iteration of the loop does to the task object (l. 672-677 with
\* the appends of _run_rollback_commands): the messages are appended, the
\* status is reset to PENDING when every rollback command succeeded
RolledBackTask(rt, entry) ==
    [rt EXCEPT !.status = IF entry.success THEN PENDING ELSE @,
               !.logs = @ \o RollbackLogs(entry.outs),
               !.error_logs = @ \o RollbackErrorLogs(entry.outs)]

\* all_successful of rollback_recovery (l. 661, 673-674, 679)
RollbackResult(trace) == \A i \in 1..Len(trace) : trace[i].success

RecoveryIds == {RecoveryId(i, s, c) : i \in Incidents, s \in SystemTypes, c \in 0..MaxClock}

\* an id no recovery ever gets (its system type has no plan)
UnknownId == RecoveryId("INC-1", "mainframe", 0)

\* rollback_recovery with an id that is not in active_recoveries (l. 655-656)
RollbackUnknown(t, recovery_id) ==
    /\ stack[t] = <<>>
    /\ n_rb < MaxRollbacks
    /\ n_init + n_rb < MaxCalls
    /\ recovery_id \notin DOMAIN active_recoveries
    /\ ret' = [ret EXCEPT ![t] = Ret("rollback_recovery", "returned", recovery_id, FALSE, <<>>)]
    /\ n_rb' = n_rb + 1
    /\ UNCHANGED <<now, created_at, tasks, active_recoveries, db, stack, ended, n_init, setup, query, cbvars>>

\* slip of rollback_recovery: a failed rollback marks the instance failed
Rollback_MarksFailed(t, recovery_id) ==
    /\ stack[t] = <<>>
    /\ n_rb < MaxRollbacks
    /\ n_init + n_rb < MaxCalls
    /\ recovery_id \in DOMAIN active_recoveries
    /\ LET recovery == active_recoveries[recovery_id]
           s == recovery.system_type
           order == RollbackOrder(recovery, s)
           cmds == {<<k, i>> \in TaskIdx(s) \X (1..3) :
                       /\ \E j \in 1..Len(order) : order[j] = k
                       /\ i <= recovery_plans[s][k].rollback_commands}
       IN \E outs \in [cmds -> Outcomes] :
          LET trace == RollbackLoop(order, s, outs)
              attempted == {trace[i].task : i \in 1..Len(trace)}
              entry(k) == trace[CHOOSE i \in 1..Len(trace) : trace[i].task = k]
          IN /\ tasks' = [tasks EXCEPT ![s] =
                    [k \in TaskIdx(s) |->
                        IF k \in attempted THEN RolledBackTask(@[k], entry(k)) ELSE @[k]]]
             /\ active_recoveries' =
                    IF RollbackResult(trace) THEN active_recoveries
                    ELSE [active_recoveries EXCEPT ![recovery_id].status = FAILED,
                                                   ![recovery_id].completed_at = Stamp]
             /\ ret' = [ret EXCEPT ![t] =
                    Ret("rollback_recovery", "returned", recovery_id, RollbackResult(trace), trace)]
    /\ n_rb' = n_rb + 1
    /\ UNCHANGED <<now, created_at, db, stack, ended, n_init, setup, query, cbvars>>

\* rollback_recovery on a known id (l. 658-679)
Rollback(t, recovery_id) ==
    /\ stack[t] = <<>>
    /\ n_rb < MaxRollbacks
    /\ n_init + n_rb < MaxCalls
    /\ recovery_id \in DOMAIN active_recoveries
    /\ LET recovery == active_recoveries[recovery_id]
           s == recovery.system_type
           order == RollbackOrder(recovery, s)
           cmds == {<<k, i>> \in TaskIdx(s) \X (1..3) :
                       /\ \E j \in 1..Len(order) : order[j] = k
                       /\ i <= recovery_plans[s][k].rollback_commands}
       IN \E outs \in [cmds -> Outcomes] :
          LET trace == RollbackLoop(order, s, outs)
              attempted == {trace[i].task : i \in 1..Len(trace)}
              entry(k) == trace[CHOOSE i \in 1..Len(trace) : trace[i].task = k]
          IN /\ tasks' = [tasks EXCEPT ![s] =
                    [k \in TaskIdx(s) |->
                        IF k \in attempted THEN RolledBackTask(@[k], entry(k)) ELSE @[k]]]
             /\ ret' = [ret EXCEPT ![t] =
                    Ret("rollback_recovery", "returned", recovery_id, RollbackResult(trace), trace)]
    /\ n_rb' = n_rb + 1
    /\ UNCHANGED <<now, created_at, active_recoveries, db, stack, ended, n_init, setup, query, cbvars>>

\* slip of get_recovery_status: the call leaves a note in the log of every
\* task it reports
GetStatus_Logged(t, recovery_id) ==
    /\ stack[t] = <<>>
    /\ recovery_id \in DOMAIN active_recoveries \cup {UnknownId}
    /\ ret' = [ret EXCEPT ![t] = StatusRet(recovery_id, GetRecoveryStatus(recovery_id))]
    /\ tasks' = IF recovery_id \in DOMAIN active_recoveries
                THEN [tasks EXCEPT ![active_recoveries[recovery_id].system_type] =
                        [k \in DOMAIN @ |->
                            [@[k] EXCEPT !.logs = IF Len(@) < 2
                                                  THEN Append(@, LogEntry("Status reported", 0))
                                                  ELSE @]]]
                ELSE tasks
    /\ UNCHANGED <<now, created_at, active_recoveries, db, stack, ended, n_init, n_rb, setup, query, cbvars>>

\* get_recovery_status called by thread t between its other calls
\* (l. 735-775); UnknownId stands for every id that is not registered
GetStatus(t, recovery_id) ==
    /\ stack[t] = <<>>
    /\ recovery_id \in DOMAIN active_recoveries \cup {UnknownId}
    /\ ret' = [ret EXCEPT ![t] = StatusRet(recovery_id, GetRecoveryStatus(recovery_id))]
    /\ UNCHANGED <<now, created_at, tasks, active_recoveries, db, stack, ended, n_init, n_rb, setup, query, cbvars>>

\* ------------------------------------- calls next to a monitoring thread
\* A second thread calls get_recovery_status while thread t is in
\* initiate_recovery, in the phase loop or in rollback_recovery.  The
\* statements of initiate_recovery that the query can see between are steps
\* of their own; the blocks of the phase loop are those above.
\* rollback_recovery stays one step: it writes task.status, which the query
\* does not read, and appends to the logs, whose lengths the query reads
\* once per task.

\* initiate_recovery up to the registration of the instance (l. 454-474):
\* status PENDING, no timestamps, an empty status map
InitiateRegister(t, incident_id, system_type) ==
    /\ stack[t] = <<>>
    /\ setup[t] = NoSetup
    /\ n_init < ConcRecoveries
    /\ n_init + n_rb < ConcCalls
    /\ system_type \in SystemTypes
    /\ Cardinality({active_recoveries[r].system_type : r \in DOMAIN active_recoveries}
                    \cup {system_type}) <= MaxSystemTypes
    /\ LET recovery_id == RecoveryId(incident_id, system_type, now)
           recovery_instance ==
               [incident_id |-> incident_id, system_type |-> system_type,
                status |-> PENDING, started_at |-> None, completed_at |-> None,
                task_status |-> <<>>]
       IN /\ active_recoveries' =
                [r \in DOMAIN active_recoveries \cup {recovery_id} |->
                    IF r = recovery_id THEN recovery_instance ELSE active_recoveries[r]]
          /\ ended' = [r \in DOMAIN ended \cup {recovery_id} |->
                    IF r = recovery_id THEN [k \in TaskIdx(system_type) |-> None]
                    ELSE ended[r]]
          /\ setup' = [setup EXCEPT ![t] =
                    [pc |-> "task_status", recovery_id |-> recovery_id,
                     todo |-> [k \in TaskIdx(system_type) |-> k]]]
          /\ ret' = [ret EXCEPT ![t] = Ret("initiate_recovery", "running", recovery_id, TRUE, <<>>)]
    /\ n_init' = n_init + 1
    /\ UNCHANGED <<now, created_at, tasks, db, stack, n_rb, query, cbvars>>

\* one iteration of the loop that fills the status map (l. 477-482)
InitiateFill(t) ==
    /\ setup[t].pc = "task_status"
    /\ setup[t].todo # <<>>
    /\ LET rid == setup[t].recovery_id
           recovery == active_recoveries[rid]
           s == recovery.system_type
           id == recovery_plans[s][Head(setup[t].todo)].id
       IN active_recoveries' = [active_recoveries EXCEPT ![rid].task_status =
              [x \in DOMAIN recovery.task_status \cup {id} |->
                  IF x = id THEN PENDING ELSE recovery.task_status[x]]]
    /\ setup' = [setup EXCEPT ![t].todo = Tail(@)]
    /\ UNCHANGED <<now, created_at, tasks, db, stack, ret, ended, n_init, n_rb, query, cbvars>>

\* _start_recovery_sequence, first assignment (l. 485, 492-493)
InitiateStatus(t) ==
    /\ setup[t].pc = "task_status"
    /\ setup[t].todo = <<>>
    /\ active_recoveries' = [active_recoveries EXCEPT ![setup[t].recovery_id].status = IN_PROGRESS]
    /\ setup' = [setup EXCEPT ![t].pc = "started_at"]
    /\ UNCHANGED <<now, created_at, tasks, db, stack, ret, ended, n_init, n_rb, query, cbvars>>

\* _start_recovery_sequence, second assignment and the call of the first
\* phase up to its loop (l. 494-508)
InitiateStarted(t) ==
    /\ setup[t].pc = "started_at"
    /\ LET rid == setup[t].recovery_id
           s == active_recoveries[rid].system_type
       IN /\ active_recoveries' = [active_recoveries EXCEPT ![rid].started_at = Stamp]
          /\ stack' = [stack EXCEPT ![t] = <<Frame(rid, ASSESSMENT, PhaseTasks(s, ASSESSMENT))>>]
    /\ setup' = [setup EXCEPT ![t] = NoSetup]
    /\ UNCHANGED <<now, created_at, tasks, db, ret, ended, n_init, n_rb, query, cbvars>>

\* rollback_recovery of thread t between its other calls
ConcRollback(t, recovery_id) ==
    /\ setup[t] = NoSetup
    /\ n_rb < ConcRollbacks
    /\ n_init + n_rb < ConcCalls
    /\ Rollback(t, recovery_id)

\* get_recovery_status up to total_tasks (l. 737-744); incident_id and
\* system_type never change once the instance is registered and are read here
QueryCall(recovery_id) ==
    /\ query.pc \in {"idle", "returned"}
    /\ query.n < MaxQueries
    /\ recovery_id \in DOMAIN active_recoveries \cup {UnknownId}
    /\ query' =
          IF recovery_id \notin DOMAIN active_recoveries
          THEN [pc |-> "returned", n |-> query.n + 1, recovery_id |-> recovery_id, value |-> <<>>]
          ELSE LET recovery == active_recoveries[recovery_id] IN
               [pc |-> "completed_tasks", n |-> query.n + 1, recovery_id |-> recovery_id,
                value |-> <<>>,
                q |-> [recovery_id |-> recovery_id,
                       incident_id |-> recovery.incident_id,
                       system_type |-> recovery.system_type,
                       status |-> None,
                       total_tasks |-> Len(recovery_plans[recovery.system_type]),
                       completed_tasks |-> 0,
                       failed_tasks |-> 0,
                       started_at |-> None,
                       completed_at |-> None,
                       task_details |-> <<>>]]
    /\ UNCHANGED <<now, created_at, tasks, active_recoveries, db, stack, ret, ended,
                   n_init, n_rb, setup, cbvars>>

\* completed_tasks (l. 745-746) and failed_tasks (l. 747-748)
QueryCount ==
    /\ query.pc \in {"completed_tasks", "failed_tasks"}
    /\ LET recovery == active_recoveries[query.recovery_id]
           s == query.q.system_type
       IN query' =
             IF query.pc = "completed_tasks"
             THEN [query EXCEPT !.pc = "failed_tasks",
                                !.q.completed_tasks = CompletedCount(recovery, s)]
             ELSE [query EXCEPT !.pc = "status",
                                !.q.failed_tasks = FailedCount(recovery, s)]
    /\ UNCHANGED <<now, created_at, tasks, active_recoveries, db, stack, ret, ended,
                   n_init, n_rb, setup, cbvars>>

\* the reads of recovery["status"], ["started_at"] and ["completed_at"]
\* (l. 756, 761, 762), one per step
QueryField ==
    /\ query.pc \in {"status", "started_at", "completed_at"}
    /\ LET recovery == active_recoveries[query.recovery_id]
       IN query' =
             IF query.pc = "status"
             THEN [query EXCEPT !.pc = "started_at", !.q.status = recovery.status]
             ELSE IF query.pc = "started_at"
             THEN [query EXCEPT !.pc = "completed_at", !.q.started_at = recovery.started_at]
             ELSE [query EXCEPT !.pc = "task_details", !.q.completed_at = recovery.completed_at]
    /\ UNCHANGED <<now, created_at, tasks, active_recoveries, db, stack, ret, ended,
                   n_init, n_rb, setup, cbvars>>

\* one element of the task_details comprehension (l. 763-774)
QueryDetail ==
    /\ query.pc = "task_details"
    /\ Len(query.q.task_details) < query.q.total_tasks
    /\ LET recovery == active_recoveries[query.recovery_id]
           s == query.q.system_type
           k == Len(query.q.task_details) + 1
       IN query' = [query EXCEPT !.q.task_details = Append(@, TaskDetail(recovery, s, k))]
    /\ UNCHANGED <<now, created_at, tasks, active_recoveries, db, stack, ret, ended,
                   n_init, n_rb, setup, cbvars>>

\* the comprehension is exhausted: the dictionary is returned (l. 752, 775)
QueryReturn ==
    /\ query.pc = "task_details"
    /\ Len(query.q.task_details) = query.q.total_tasks
    /\ query' = [query EXCEPT !.pc = "returned", !.value = <<Reply(query.q)>>]
    /\ UNCHANGED <<now, created_at, tasks, active_recoveries, db, stack, ret, ended,
                   n_init, n_rb, setup, cbvars>>

\* ------------------------------------------------------------ callbacks
\* register_completion_callback (l. 777-779), called between two API calls
RegisterCompletionCallback(t) ==
    /\ stack[t] = <<>>
    /\ completion_callbacks < MaxCallbacks
    /\ completion_callbacks' = completion_callbacks + 1
    /\ UNCHANGED <<now, created_at, tasks, active_recoveries, db, stack, ret, ended,
                   n_init, n_rb, setup, query, failure_callbacks, invoked, cmd, incidents>>

\* register_failure_callback (l. 781-783), called between two API calls
RegisterFailureCallback(t) ==
    /\ stack[t] = <<>>
    /\ failure_callbacks < MaxCallbacks
    /\ failure_callbacks' = failure_callbacks + 1
    /\ UNCHANGED <<now, created_at, tasks, active_recoveries, db, stack, ret, ended,
                   n_init, n_rb, setup, query, completion_callbacks, invoked, cmd, incidents>>

\* initiate_recovery of an orchestrator that callbacks are registered with
CbInitiate(t, incident_id, system_type) ==
    /\ n_init < CbRecoveries
    /\ Initiate(t, incident_id, system_type)

\* ------------------------------------------------- failing store writes
\* _save_task_to_db (l. 709-733) has no exception handler, and neither have
\* its callers: an sqlite3 error of connect, execute or commit leaves
\* _execute_recovery_task, the phase loops on the stack and initiate_recovery.

\* initiate_recovery of an orchestrator whose store may fail
StoreInitiate(t, incident_id, system_type) ==
    /\ n_init < StoreRecoveries
    /\ Initiate(t, incident_id, system_type)

\* the head of _execute_recovery_task with the first save raising
\* (l. 529-533): the task is IN_PROGRESS when the exception leaves the call
StartTaskSaveFails(t) ==
    /\ stack[t] # <<>>
    /\ LET f == Top(t)
           rid == f.recovery_id
           recovery == active_recoveries[rid]
           s == recovery.system_type
       IN /\ f.cur = NoTask
          /\ f.todo # <<>>
          /\ LET k == Head(f.todo)
                 rt == [tasks[s][k] EXCEPT !.status = IN_PROGRESS, !.started_at = Stamp]
             IN
             /\ CheckDependencies(recovery_plans[s][k], recovery)
             /\ tasks' = [tasks EXCEPT ![s][k] = rt]
    /\ stack' = [stack EXCEPT ![t] = <<>>]
    /\ ret' = [ret EXCEPT ![t] = Ret("initiate_recovery", "raised", NoId, FALSE, <<>>)]
    /\ UNCHANGED <<now, created_at, active_recoveries, db, ended, n_init, n_rb, setup, query,
                   cbvars>>

\* the rest of _execute_recovery_task with the second save raising
\* (l. 536-568): status, status map and callbacks are done, the phase check
\* (l. 571) is not reached
FinishTaskSaveFails(t) ==
    /\ stack[t] # <<>>
    /\ LET f == Top(t)
           rid == f.recovery_id
           recovery == active_recoveries[rid]
           s == recovery.system_type
           k == f.cur
       IN /\ k # NoTask
          /\ \E outs \in [1..recovery_plans[s][k].commands -> Outcomes] :
             \E cbs \in [1..Registered(CallbackGroup(RunTaskCommands(outs)))
                           -> CallbackOutcomes] :
             LET success == RunTaskCommands(outs)
                 rt == ExecutedTask(tasks[s][k], outs)
                 cb == RunCallbacks(CallbackGroup(success), rt, cbs)
             IN
             /\ tasks' = [tasks EXCEPT ![s][k] = rt]
             /\ ended' = [ended EXCEPT ![rid][k] = rt.status]
             /\ invoked' = cb.invoked
             /\ active_recoveries' =
                   IF success
                   THEN [active_recoveries EXCEPT
                            ![rid].task_status[recovery_plans[s][k].id] = COMPLETED]
                   ELSE active_recoveries
    /\ stack' = [stack EXCEPT ![t] = <<>>]
    /\ ret' = [ret EXCEPT ![t] = Ret("initiate_recovery", "raised", NoId, FALSE, <<>>)]
    /\ UNCHANGED <<now, created_at, db, n_init, n_rb, setup, query,
                   completion_callbacks, failure_callbacks, cmd, incidents>>

\* ------------------------------------------------------- two callers
\* initiate_recovery called by one of two threads; the other thread may be
\* inside a call of its own (no lock is taken anywhere in the class)
TwoInitiate(t, incident_id, system_type) ==
    /\ n_init < TwoRecoveries
    /\ Initiate(t, incident_id, system_type)

\* ------------------------------------------------- the incident monitor
\* integration_monitoring of the incident response system calls
\* _check_recovery_triggers every 30 seconds (incident_response_system.py
\* l. 196-210).

\* an incident that affects a system with a predefined plan is contained
\* (_determine_recovery_system_type, l. 631-639, gives the plan)
Contain(i, system_type) ==
    /\ incidents[i].status = "open"
    /\ system_type \in {"database", "webapp", "network"}
    /\ incidents' = [incidents EXCEPT ![i].status = "contained",
                                      ![i].system_type = system_type]
    /\ UNCHANGED <<now, created_at, tasks, active_recoveries, db, stack, ret, ended,
                   n_init, n_rb, setup, query,
                   completion_callbacks, failure_callbacks, invoked, cmd>>

\* a pass of _check_recovery_triggers finds the incident contained without
\* recovery_initiated (l. 419-420) and _trigger_recovery enters
\* initiate_recovery (l. 431-434)
TriggerRecovery(t, i) ==
    /\ incidents[i].status = "contained"
    /\ ~incidents[i].recovery_initiated
    /\ incidents[i].pc = "idle"
    /\ incidents[i].slept
    /\ InitiateCall(t, i, incidents[i].system_type)
    /\ incidents' = [incidents EXCEPT ![i].pc = "calling", ![i].slept = FALSE]

\* initiate_recovery has returned: recovery_id and recovery_initiated are
\* set (l. 436-439)
TriggerReturned(t, i) ==
    /\ incidents[i].pc = "calling"
    /\ stack[t] = <<>>
    /\ ret[t].state = "returned"
    /\ incidents' = [incidents EXCEPT ![i].pc = "idle",
                                      ![i].recovery_id = ret[t].recovery_id,
                                      ![i].recovery_initiated = TRUE]
    /\ UNCHANGED <<now, created_at, tasks, active_recoveries, db, stack, ret, ended,
                   n_init, n_rb, setup, query,
                   completion_callbacks, failure_callbacks, invoked, cmd>>

\* initiate_recovery has raised: the except clause logs the error
\* (l. 443-444), the incident is left as it was
TriggerRaised(t, i) ==
    /\ incidents[i].pc = "calling"
    /\ stack[t] = <<>>
    /\ ret[t].state = "raised"
    /\ incidents' = [incidents EXCEPT ![i].pc = "idle"]
    /\ UNCHANGED <<now, created_at, tasks, active_recoveries, db, stack, ret, ended,
                   n_init, n_rb, setup, query,
                   completion_callbacks, failure_callbacks, invoked, cmd>>

\* time.sleep(30) between two passes (l. 210)
MonitorSleep ==
    /\ now < MaxClock
    /\ \A t \in Threads : stack[t] = <<>>
    /\ \A i \in Incidents : incidents[i].pc = "idle"
    /\ \E i \in Incidents : ~incidents[i].slept
    /\ now' = now + 1
    /\ incidents' = [i \in Incidents |-> [incidents[i] EXCEPT !.slept = TRUE]]
    /\ UNCHANGED <<created_at, tasks, active_recoveries, db, stack, ret, ended,
                   n_init, n_rb, setup, query,
                   completion_callbacks, failure_callbacks, invoked, cmd>>

\* ------------------------------------------------- commands of one task
\* _execute_recovery_task reaches l. 536 with a task of n commands
CallCommands(n) ==
    /\ cmd.pc = "idle"
    /\ cmd' = [cmd EXCEPT !.pc = "running", !.n = n]
    /\ UNCHANGED <<now, created_at, tasks, active_recoveries, db, stack, ret, ended,
                   n_init, n_rb, setup, query,
                   completion_callbacks, failure_callbacks, invoked, incidents>>

\* one pass of the for loop of _run_task_commands (l. 577-607): the next
\* command of the list is run whatever the commands before it did (no
\* branch of the body leaves the loop)
RunCommand(outcome) ==
    /\ cmd.pc = "running"
    /\ Len(cmd.ran) < cmd.n
    /\ cmd' = [cmd EXCEPT !.outs = Append(@, outcome),
                          !.ran = Append(@, Len(cmd.ran) + 1)]
    /\ UNCHANGED <<now, created_at, tasks, active_recoveries, db, stack, ret, ended,
                   n_init, n_rb, setup, query,
                   completion_callbacks, failure_callbacks, invoked, incidents>>

\* the list is exhausted: return all_successful (l. 609) and set the status
\* of the task (l. 538-540, 557-558)
ReturnCommands ==
    /\ cmd.pc = "running"
    /\ Len(cmd.ran) = cmd.n
    /\ cmd' = [cmd EXCEPT !.pc = "done", !.task = ExecutedTask(@, cmd.outs)]
    /\ UNCHANGED <<now, created_at, tasks, active_recoveries, db, stack, ret, ended,
                   n_init, n_rb, setup, query,
                   completion_callbacks, failure_callbacks, invoked, incidents>>

\* ------------------------------------------------------------ specification
\* one step of the call that thread t is in
Engine(t) == SkipTask(t) \/ StartTask(t) \/ FinishTask(t) \/ ReturnPhase(t)

Next ==
    \/ Tick
    \/ \E t \in Threads, i \in Incidents, s \in RequestedTypes : InitiateUnknown(t, i, s)
    \/ \E t \in Threads, i \in Incidents, s \in RequestedTypes : Initiate(t, i, s)
    \/ \E t \in Threads : SkipTask(t)
    \/ \E t \in Threads : StartTask(t)
    \/ \E t \in Threads : FinishTask(t)
    \/ \E t \in Threads : ReturnPhase(t)
    \/ \E t \in Threads : RollbackUnknown(t, UnknownId)
    \/ \E t \in Threads, r \in RecoveryIds : Rollback(t, r)
    \/ \E t \in Threads, r \in RecoveryIds \cup {UnknownId} : GetStatus(t, r)

Spec == Init /\ [][Next]_vars

ConcNext ==
    \/ \E t \in Threads, i \in Incidents, s \in SystemTypes : InitiateRegister(t, i, s)
    \/ \E t \in Threads : InitiateFill(t)
    \/ \E t \in Threads : InitiateStatus(t)
    \/ \E t \in Threads : InitiateStarted(t)
    \/ \E t \in Threads : SkipTask(t)
    \/ \E t \in Threads : StartTask(t)
    \/ \E t \in Threads : FinishTask(t)
    \/ \E t \in Threads : ReturnPhase(t)
    \/ \E t \in Threads, r \in RecoveryIds : ConcRollback(t, r)
    \/ \E r \in RecoveryIds \cup {UnknownId} : QueryCall(r)
    \/ QueryCount
    \/ QueryField
    \/ QueryDetail
    \/ QueryReturn

ConcSpec == Init /\ [][ConcNext]_vars

\* the engine with registered callbacks, each of which may raise
CbNext ==
    \/ \E t \in Threads : RegisterCompletionCallback(t)
    \/ \E t \in Threads : RegisterFailureCallback(t)
    \/ \E t \in Threads, i \in Incidents, s \in SystemTypes : CbInitiate(t, i, s)
    \/ \E t \in Threads : SkipTask(t)
    \/ \E t \in Threads : StartTask(t)
    \/ \E t \in Threads : FinishTask(t)
    \/ \E t \in Threads : ReturnPhase(t)

CallbackSpec == Init /\ [][CbNext]_vars

\* the engine on a store whose writes may fail
StoreNext ==
    \/ \E t \in Threads, i \in Incidents, s \in SystemTypes : StoreInitiate(t, i, s)
    \/ \E t \in Threads : SkipTask(t)
    \/ \E t \in Threads : StartTask(t)
    \/ \E t \in Threads : StartTaskSaveFails(t)
    \/ \E t \in Threads : FinishTask(t)
    \/ \E t \in Threads : FinishTaskSaveFails(t)
    \/ \E t \in Threads : ReturnPhase(t)

StoreSpec == Init /\ [][StoreNext]_vars

\* two threads in initiate_recovery, their blocks interleaved
TwoNext ==
    \/ \E t \in Workers, i \in TwoIncidents, s \in SystemTypes : TwoInitiate(t, i, s)
    \/ \E t \in Workers : SkipTask(t)
    \/ \E t \in Workers : StartTask(t)
    \/ \E t \in Workers : FinishTask(t)
    \/ \E t \in Workers : ReturnPhase(t)

TwoSpec == Init /\ [][TwoNext]_vars

\* the monitor thread and the engine it calls, on a store whose writes may
\* fail.  The three predefined plans have one task per phase, which depends
\* on the task of the phase before, so the dependency test of l. 512 never
\* fails in a call of the monitor and the skip is not a step of this system.
MonitorNext ==
    \/ \E i \in Incidents, s \in SystemTypes : Contain(i, s)
    \/ \E t \in Threads, i \in Incidents : TriggerRecovery(t, i)
    \/ \E t \in Threads, i \in Incidents : TriggerReturned(t, i)
    \/ \E t \in Threads, i \in Incidents : TriggerRaised(t, i)
    \/ MonitorSleep
    \/ \E t \in Threads : StartTask(t)
    \/ \E t \in Threads : StartTaskSaveFails(t)
    \/ \E t \in Threads : FinishTask(t)
    \/ \E t \in Threads : FinishTaskSaveFails(t)
    \/ \E t \in Threads : ReturnPhase(t)

MonitorSpec == Init /\ [][MonitorNext]_vars

\* _run_task_commands on its own, with every outcome a command can have
CommandNext ==
    \/ \E n \in 0..MaxCommands : CallCommands(n)
    \/ \E outcome \in CommandOutcomes : RunCommand(outcome)
    \/ ReturnCommands

CommandSpec == Init /\ [][CommandNext]_vars

\* the calling thread keeps running: a call that is on the stack takes its
\* next step (the interpreter does not stop in the middle of a call)
FairSpec == Spec /\ \A t \in Threads : WF_vars(Engine(t))

TypeOK ==
    /\ now \in 0..MaxClock
    /\ \A s \in SystemTypes : \A k \in TaskIdx(s) : tasks[s][k].status \in RecoveryStatus
    /\ \A r \in DOMAIN active_recoveries :
          active_recoveries[r].status \in {PENDING, IN_PROGRESS, COMPLETED, FAILED}

\* ------------------------------------------------------------------ claims
BuiltIn == {"database", "webapp", "network"}
Terminal == {COMPLETED, FAILED, SKIPPED}
Deps(s, k) == {recovery_plans[s][k].dependencies[i] :
                  i \in 1..Len(recovery_plans[s][k].dependencies)}
\* the call that runs recovery r has returned: no activation of r is on a stack
Returned(r) == \A t \in Threads : \A i \in 1..Len(stack[t]) : stack[t][i].recovery_id # r
LastRollback(t) == ret[t].op = "rollback_recovery" /\ ret[t].recovery_id \in DOMAIN active_recoveries

\* C1: a recovery of a predefined system type that initiate_recovery started
\* eventually has instance status Completed or Failed; it does not stay
\* Pending or InProgress forever.
C1_EventuallyFinished ==
    \A r \in {x \in RecoveryIds : x[2] \in BuiltIn} :
        (r \in DOMAIN active_recoveries /\ active_recoveries[r].status \in {PENDING, IN_PROGRESS})
        ~> (r \in DOMAIN active_recoveries /\ active_recoveries[r].status \in {COMPLETED, FAILED})

\* C2: whenever a task changes to InProgress, the instance being executed
\* holds every dependency id of the task in its status map with status
\* Completed in the state the change is made in.
C2_InProgressOnlyWithDepsCompleted ==
    [][\A s \in SystemTypes : \A k \in TaskIdx(s) :
          (tasks[s][k].status # IN_PROGRESS /\ tasks'[s][k].status = IN_PROGRESS)
          => \E t \in Threads :
                /\ stack[t] # <<>>
                /\ Top(t).recovery_id \in DOMAIN active_recoveries
                /\ LET recovery == active_recoveries[Top(t).recovery_id]
                   IN /\ recovery.system_type = s
                      /\ \A d \in Deps(s, k) :
                            /\ d \in DOMAIN recovery.task_status
                            /\ recovery.task_status[d] = COMPLETED]_vars

C2_Witness ==
    \E s \in SystemTypes : \E k \in TaskIdx(s) :
        tasks[s][k].status = IN_PROGRESS /\ Deps(s, k) # {}

\* C3 as stated: no task of phase N+1 changes status (in any way) while a
\* task of phase N of the same plan instance is Pending or InProgress.
C3_NoStatusChangeBeforePhaseDone ==
    [][\A r \in DOMAIN active_recoveries :
          LET s == active_recoveries[r].system_type IN
          \A k1, k2 \in TaskIdx(s) :
             (/\ PhaseIndex(recovery_plans[s][k2].phase) = PhaseIndex(recovery_plans[s][k1].phase) + 1
              /\ tasks'[s][k2].status # tasks[s][k2].status)
             => tasks[s][k1].status \notin {PENDING, IN_PROGRESS}]_vars

\* C3 (amended): no task of phase N+1 is dispatched, skipped, completed or
\* failed (changes status to anything but the Pending that a rollback resets
\* it to) while a task of phase N is Pending or InProgress.
C3_NoForwardStepBeforePhaseDone ==
    [][\A r \in DOMAIN active_recoveries :
          LET s == active_recoveries[r].system_type IN
          \A k1, k2 \in TaskIdx(s) :
             (/\ PhaseIndex(recovery_plans[s][k2].phase) = PhaseIndex(recovery_plans[s][k1].phase) + 1
              /\ tasks'[s][k2].status # tasks[s][k2].status
              /\ tasks'[s][k2].status # PENDING)
             => tasks[s][k1].status \notin {PENDING, IN_PROGRESS}]_vars

C3_Witness ==
    \E s \in SystemTypes : \E k1, k2 \in TaskIdx(s) :
        /\ PhaseIndex(recovery_plans[s][k2].phase) = PhaseIndex(recovery_plans[s][k1].phase) + 1
        /\ tasks[s][k2].status = IN_PROGRESS

\* C4: a task that has a dependency whose status is Failed or Skipped becomes
\* Skipped in the step in which the engine visits it, and no task with such a
\* dependency is ever InProgress (its commands run only while InProgress).
HasDeadDependency(s, k) ==
    \E d \in Deps(s, k) : d \in TaskIds(s) /\ tasks[s][IdxOf(s, d)].status \in {FAILED, SKIPPED}

C4_DeadDependencyMeansSkipped ==
    /\ [][\A t \in Threads : \A s \in SystemTypes : \A k \in TaskIdx(s) :
             (/\ stack[t] # <<>>
              /\ Top(t).cur = NoTask
              /\ Top(t).todo # <<>>
              /\ Head(Top(t).todo) = k
              /\ active_recoveries[Top(t).recovery_id].system_type = s
              /\ HasDeadDependency(s, k)
              /\ stack'[t] # stack[t])
             => tasks'[s][k].status = SKIPPED]_vars
    /\ [](\A s \in SystemTypes : \A k \in TaskIdx(s) :
             HasDeadDependency(s, k) => tasks[s][k].status # IN_PROGRESS)

C4_Witness ==
    \E s \in SystemTypes : \E k \in TaskIdx(s) :
        HasDeadDependency(s, k) /\ tasks[s][k].status = SKIPPED

\* C5: in the plan with A (no dependencies) and B (depends on A) in one phase,
\* once A has failed and B was skipped the phase counts as complete and the
\* instance goes on to the next phase: its task C has been visited by the
\* time the run of the instance is over.
C5_FailedAndSkippedDoNotBlock ==
    \A r \in DOMAIN active_recoveries :
        (/\ active_recoveries[r].system_type = "scenario"
         /\ ended[r][1] = FAILED
         /\ ended[r][2] = SKIPPED
         /\ Returned(r))
        => ended[r][3] # None

\* C6: when the last phase has finished and a task of the instance ended
\* Failed, the instance status is Failed and completed_at is recorded.
LastPhaseFinished(r) ==
    LET s == active_recoveries[r].system_type
        last == {k \in TaskIdx(s) : recovery_plans[s][k].phase = POST_INCIDENT}
    IN /\ last # {}
       /\ \A k \in last : ended[r][k] \in Terminal
       /\ Returned(r)

C6_FailedInstanceIsMarkedFailed ==
    \A r \in DOMAIN active_recoveries :
        (LastPhaseFinished(r) /\ \E k \in DOMAIN ended[r] : ended[r][k] = FAILED)
        => (active_recoveries[r].status = FAILED /\ active_recoveries[r].completed_at # None)

\* C7: an instance whose status is Completed has no task that ended Failed
\* (neither in the history of its run nor in its status map) and its
\* completed_at is set.
C7_CompletedHasNoFailedTask ==
    \A r \in DOMAIN active_recoveries :
        active_recoveries[r].status = COMPLETED
        => /\ \A k \in DOMAIN ended[r] : ended[r][k] # FAILED
           /\ \A id \in DOMAIN active_recoveries[r].task_status :
                 active_recoveries[r].task_status[id] # FAILED
           /\ active_recoveries[r].completed_at # None

C7_Witness == \E r \in DOMAIN active_recoveries : active_recoveries[r].status = COMPLETED

\* C8: the tasks rolled back by one rollback_recovery call are rolled back in
\* strictly reverse creation order (the order of construction in the plan's
\* task list): a task created earlier is rolled back later.
C8_ReverseCreationOrder ==
    \A t \in Threads :
        LastRollback(t) =>
            \A i, j \in 1..Len(ret[t].trace) :
                i < j => ret[t].trace[i].task > ret[t].trace[j].task

\* C9: rollback_recovery on a known id returns True exactly when every
\* rollback command of every task it attempted succeeded.
C9_SuccessIffAllRollbacksSucceeded ==
    \A t \in Threads :
        LastRollback(t) =>
            (ret[t].success <=>
                \A i \in 1..Len(ret[t].trace) :
                    \A c \in DOMAIN ret[t].trace[i].outs : ret[t].trace[i].outs[c] = "ok")

C9_Witness ==
    \E t \in Threads :
        /\ LastRollback(t)
        /\ ~ret[t].success
        /\ Len(ret[t].trace) >= 2
        /\ ret[t].trace[Len(ret[t].trace)].success

\* C10: one rollback_recovery call attempts the rollback of every task of the
\* instance that is Completed and has rollback commands, also after an
\* earlier rollback of the call failed.
C10_EveryCompletedTaskAttempted ==
    \A t \in Threads :
        LastRollback(t) =>
            LET recovery == active_recoveries[ret[t].recovery_id]
                s == recovery.system_type
            IN {ret[t].trace[i].task : i \in 1..Len(ret[t].trace)}
               = {k \in TaskIdx(s) :
                     /\ MapStatus(recovery, recovery_plans[s][k].id) = COMPLETED
                     /\ recovery_plans[s][k].rollback_commands > 0}

C10_Witness ==
    \E t \in Threads :
        /\ LastRollback(t)
        /\ Len(ret[t].trace) >= 2
        /\ ~ret[t].trace[1].success

\* the last call of thread t was get_recovery_status and found the instance
LastStatus(t) == ret[t].op = "get_recovery_status" /\ ret[t].value # <<>>

\* C11: a rollback_recovery call leaves the instances alone: every instance
\* has the status, started_at and completed_at after the call that it had
\* before, whether the rollbacks succeeded or failed.
C11_RollbackKeepsInstanceState ==
    [][n_rb' = n_rb + 1
       => /\ DOMAIN active_recoveries' = DOMAIN active_recoveries
          /\ \A r \in DOMAIN active_recoveries :
                /\ active_recoveries'[r].status = active_recoveries[r].status
                /\ active_recoveries'[r].started_at = active_recoveries[r].started_at
                /\ active_recoveries'[r].completed_at = active_recoveries[r].completed_at]_vars

C11_Witness ==
    \E t \in Threads :
        /\ LastRollback(t)
        /\ ~ret[t].success
        /\ active_recoveries[ret[t].recovery_id].status = COMPLETED

\* C12: after rollback_recovery rolled a Completed task back successfully,
\* the status of the task is Pending, in the task and in the summary that
\* get_recovery_status gives of it.
C12_RolledBackTaskIsPending ==
    \A t \in Threads :
        LastRollback(t) =>
            LET rid == ret[t].recovery_id
                s == active_recoveries[rid].system_type
            IN \A i \in 1..Len(ret[t].trace) :
                  ret[t].trace[i].success =>
                      /\ tasks[s][ret[t].trace[i].task].status = PENDING
                      /\ GetRecoveryStatus(rid)[1].task_details[ret[t].trace[i].task].status
                            = PENDING

\* C13: after the rollback of a task failed, the task is Completed, its
\* error log holds the failure and its metadata flag it rollback_failed.
C13_FailedRollbackIsFlagged ==
    \A t \in Threads :
        LastRollback(t) =>
            LET s == active_recoveries[ret[t].recovery_id].system_type
            IN \A i \in 1..Len(ret[t].trace) :
                  ~ret[t].trace[i].success =>
                      LET task == tasks[s][ret[t].trace[i].task]
                      IN /\ task.status = COMPLETED
                         /\ \E j \in 1..Len(task.error_logs) :
                               task.error_logs[j].marker = "Rollback command failed"
                         /\ "rollback_failed" \in task.metadata

\* C14: an initiate_recovery call either raises, and then no instance, task,
\* store record or activation has changed, or it has registered an instance
\* of a system type that has a plan; no instance is ever of a type without
\* a plan.
C14_UnknownSystemTypeRaises ==
    /\ [][\A t \in Threads :
             (n_init' = n_init + 1 /\ ret'[t] # ret[t])
             => \/ /\ ret'[t].op = "initiate_recovery"
                   /\ ret'[t].state = "raised"
                   /\ UNCHANGED <<created_at, tasks, active_recoveries, db, stack, ended>>
                \/ /\ ret'[t].op = "initiate_recovery"
                   /\ ret'[t].state = "running"
                   /\ ret'[t].recovery_id[2] \in SystemTypes
                   /\ ret'[t].recovery_id \in DOMAIN active_recoveries']_vars
    /\ [](\A r \in DOMAIN active_recoveries :
             r[2] \in SystemTypes /\ active_recoveries[r].system_type = r[2])

C14_Witness ==
    \E t \in Threads :
        /\ ret[t].op = "initiate_recovery"
        /\ ret[t].state = "raised"
        /\ \E r \in DOMAIN active_recoveries : \E k \in DOMAIN ended[r] : ended[r][k] = COMPLETED

\* C15: what rollback_recovery hands back for an id that does not exist
\* differs from what it hands back when a rollback on an existing recovery
\* failed (the value False).
C15_UnknownIdIsTypedFailure ==
    \A t \in Threads :
        (ret[t].op = "rollback_recovery" /\ ret[t].recovery_id \notin DOMAIN active_recoveries)
        => ~(ret[t].state = "returned" /\ ret[t].success = FALSE)

\* C16: a get_recovery_status call changes nothing but its reply, and as
\* long as the reply of the last call stands (no other call was made since)
\* another call for the same id gives the same reply.
C16_StatusIsReadOnlyAndIdempotent ==
    /\ [][\A t \in Threads :
             (ret'[t].op = "get_recovery_status" /\ ret'[t] # ret[t])
             => /\ UNCHANGED <<now, created_at, tasks, active_recoveries, db, stack, ended,
                               n_init, n_rb>>
                /\ (ret[t].op = "get_recovery_status"
                       /\ ret[t].recovery_id = ret'[t].recovery_id)
                   => ret'[t].value = ret[t].value]_vars
    /\ [](\A t \in Threads :
             ret[t].op = "get_recovery_status"
             => GetRecoveryStatus(ret[t].recovery_id) = ret[t].value)

C16_Witness ==
    \E t \in Threads :
        /\ LastStatus(t)
        /\ ret[t].value[1].completed_tasks > 0
        /\ \E k \in DOMAIN ret[t].value[1].task_details :
              ret[t].value[1].task_details[k].error_logs_count > 0

\* C17: a get_recovery_status call of the monitoring thread, wherever it
\* falls between the steps of the other thread, returns None for an id that
\* is not registered and otherwise a dictionary with one summary per task of
\* the plan, each with a status, total_tasks equal to the number of
\* summaries, and completed_tasks + failed_tasks <= total_tasks.
C17_InterleavedStatusIsComplete ==
    query.pc = "returned" =>
        IF query.recovery_id \notin DOMAIN active_recoveries
        THEN query.value = <<>>
        ELSE /\ Len(query.value) = 1
             /\ LET snap == query.value[1]
                    s == active_recoveries[query.recovery_id].system_type
                IN /\ snap.status \in RecoveryStatus
                   /\ snap.total_tasks = Len(recovery_plans[s])
                   /\ DOMAIN snap.task_details = 1..snap.total_tasks
                   /\ \A k \in DOMAIN snap.task_details :
                         /\ snap.task_details[k].id = recovery_plans[s][k].id
                         /\ snap.task_details[k].status \in RecoveryStatus
                   /\ snap.completed_tasks >= 0
                   /\ snap.failed_tasks >= 0
                   /\ snap.completed_tasks + snap.failed_tasks <= snap.total_tasks

C17_Witness ==
    /\ query.pc = "returned"
    /\ query.value # <<>>
    /\ query.value[1].status = PENDING
    /\ \E k \in DOMAIN query.value[1].task_details :
          query.value[1].task_details[k].status = COMPLETED

\* C18: the failed_tasks of a snapshot is the number of tasks of the
\* recovery whose execution ended Failed, and the summary of each of them
\* has status failed.
C18_FailedTasksAreCounted ==
    \A t \in Threads :
        LastStatus(t) =>
            LET snap == ret[t].value[1]
                failed == {k \in DOMAIN ended[ret[t].recovery_id] :
                              ended[ret[t].recovery_id][k] = FAILED}
            IN /\ snap.failed_tasks = Cardinality(failed)
               /\ \A k \in failed : snap.task_details[k].status = FAILED

C20_ExecutionGoesOnAfterReturn ==
    \A r \in RecoveryIds : \A k \in TaskIdx(r[2]) :
        (r \in DOMAIN active_recoveries /\ Returned(r) /\ ended[r][k] = None)
        ~> (r \in DOMAIN active_recoveries /\ ended[r][k] # None)

\* the step is the entry of thread t into initiate_recovery for a
\* registered system type
InitiateStep(t) ==
    /\ n_init' = n_init + 1
    /\ ret'[t].op = "initiate_recovery"
    /\ ret'[t].state = "running"

\* C21: when initiate_recovery has created an instance, every task of the
\* instance is Pending, in the task and in the status map, and its logs and
\* error logs are empty, whatever was run from the same plan before.
C21_NewInstanceStartsPending ==
    [][\A t \in Threads :
          InitiateStep(t) =>
              LET rid == ret'[t].recovery_id
                  s == rid[2]
              IN \A k \in TaskIdx(s) :
                    /\ tasks'[s][k].status = PENDING
                    /\ tasks'[s][k].logs = <<>>
                    /\ tasks'[s][k].error_logs = <<>>
                    /\ active_recoveries'[rid].task_status[recovery_plans[s][k].id] = PENDING]_vars

\* the tasks an instance works on: those of the plan it refers to (l. 467)
TasksOf(r) == tasks[active_recoveries[r].system_type]

\* C22: a step that executes or rolls back tasks of one instance leaves the
\* status, timestamps and logs of the tasks of every other instance as
\* they are.
C22_NoLeakAcrossInstances ==
    [][\A r1, r2 \in DOMAIN active_recoveries :
          (/\ r1 # r2
           /\ \E t \in Threads :
                 \/ stack[t] # <<>> /\ Top(t).recovery_id = r1
                 \/ /\ n_rb' = n_rb + 1
                    /\ ret'[t].op = "rollback_recovery"
                    /\ ret'[t].recovery_id = r1)
          => tasks'[active_recoveries[r2].system_type] = TasksOf(r2)]_vars

\* C23: the id of an instance that initiate_recovery creates is not the id
\* of an instance that exists: the instances grow by exactly that one and
\* every instance that existed is as it was.
C23_RecoveryIdIsFresh ==
    [][\A t \in Threads :
          InitiateStep(t) =>
              /\ ret'[t].recovery_id \notin DOMAIN active_recoveries
              /\ DOMAIN active_recoveries' = DOMAIN active_recoveries \cup {ret'[t].recovery_id}
              /\ \A r \in DOMAIN active_recoveries :
                    active_recoveries'[r] = active_recoveries[r]]_vars

\* two tasks of one phase without a dependency edge between them
Independent(s, k1, k2) ==
    /\ k1 # k2
    /\ recovery_plans[s][k1].phase = recovery_plans[s][k2].phase
    /\ recovery_plans[s][k1].id \notin Deps(s, k2)
    /\ recovery_plans[s][k2].id \notin Deps(s, k1)

\* C25: when a task is InProgress and an independent task of its phase is
\* still to be visited by the same phase loop, the two tasks get to be
\* InProgress at the same time.
C25_IndependentTasksRunTogether ==
    \A s \in SystemTypes : \A k1, k2 \in TaskIdx(s) :
        Independent(s, k1, k2) =>
            ((\E t \in Threads :
                 /\ stack[t] # <<>>
                 /\ active_recoveries[Top(t).recovery_id].system_type = s
                 /\ Top(t).cur = k1
                 /\ \E i \in 1..Len(Top(t).todo) : Top(t).todo[i] = k2)
             ~> (tasks[s][k1].status = IN_PROGRESS /\ tasks[s][k2].status = IN_PROGRESS))

\* no two tasks are InProgress at the same time
AtMostOneInProgress ==
    \A s1, s2 \in SystemTypes : \A k1 \in TaskIdx(s1) : \A k2 \in TaskIdx(s2) :
        (tasks[s1][k1].status = IN_PROGRESS /\ tasks[s2][k2].status = IN_PROGRESS)
        => (s1 = s2 /\ k1 = k2)

\* C27: the status of a task changes only from Pending to InProgress, from
\* InProgress to Completed or Failed, from Pending to Skipped and from
\* Completed to Pending.
C27_StatusMachine ==
    [][\A s \in SystemTypes : \A k \in TaskIdx(s) :
          tasks'[s][k].status # tasks[s][k].status
          => <<tasks[s][k].status, tasks'[s][k].status>> \in
                {<<PENDING, IN_PROGRESS>>, <<IN_PROGRESS, COMPLETED>>,
                 <<IN_PROGRESS, FAILED>>, <<PENDING, SKIPPED>>, <<COMPLETED, PENDING>>}]_vars

\* C28: a task becomes Skipped only in a state in which one of its
\* dependencies is Failed or Skipped.
C28_SkippedOnlyForDeadDependency ==
    [][\A s \in SystemTypes : \A k \in TaskIdx(s) :
          (tasks[s][k].status # SKIPPED /\ tasks'[s][k].status = SKIPPED)
          => HasDeadDependency(s, k)]_vars

\* the entries of a log that carry the marker
Marked(log, marker) == {j \in DOMAIN log : log[j].marker = marker}
\* the commands of the finished run that had the outcome
WithOutcome(outcome) == {i \in DOMAIN cmd.outs : cmd.outs[i] = outcome}
TimeoutMarker == "Command timed out"
FailureMarker == "Command failed with exit code"

\* C26: when the commands of a task have run, a command that ran into its
\* timeout has left the task Failed, and the error log of the task holds one
\* timeout entry per timed-out command and one exit-code entry per command
\* that exited non-zero; the two markers differ.
C26_TimeoutFailsWithOwnMarker ==
    cmd.pc = "done" =>
        /\ TimeoutMarker # FailureMarker
        /\ WithOutcome("timeout") # {} => cmd.task.status = FAILED
        /\ {cmd.task.error_logs[j].command : j \in Marked(cmd.task.error_logs, TimeoutMarker)}
              = WithOutcome("timeout")
        /\ Cardinality(Marked(cmd.task.error_logs, TimeoutMarker))
              = Cardinality(WithOutcome("timeout"))
        /\ Cardinality(Marked(cmd.task.error_logs, FailureMarker))
              = Cardinality(WithOutcome("fail"))

\* a run with a timed-out command and a command that exited non-zero has
\* ended Failed with both markers in the error log
C26_Witness ==
    /\ cmd.pc = "done"
    /\ WithOutcome("timeout") # {}
    /\ WithOutcome("fail") # {}
    /\ cmd.task.status = FAILED
    /\ Marked(cmd.task.error_logs, TimeoutMarker) # {}
    /\ Marked(cmd.task.error_logs, FailureMarker) # {}

\* C29: when the commands of a task have run, the task is Completed exactly
\* if every command of the list was run and exited 0, and Failed exactly if
\* some command exited non-zero, raised or timed out.
C29_CompletedIffAllSucceeded ==
    cmd.pc = "done" =>
        /\ cmd.task.status \in {COMPLETED, FAILED}
        /\ cmd.task.status = COMPLETED
              <=> (/\ Len(cmd.ran) = cmd.n
                   /\ \A i \in 1..cmd.n : cmd.ran[i] = i /\ cmd.outs[i] = "ok")
        /\ cmd.task.status = FAILED
              <=> \E i \in DOMAIN cmd.outs : cmd.outs[i] \in {"fail", "error", "timeout"}

\* a run whose only unsuccessful command timed out, followed by a command
\* that exited 0, has ended Failed
C29_Witness ==
    /\ cmd.pc = "done"
    /\ cmd.n >= 2
    /\ cmd.outs[1] = "timeout"
    /\ \A i \in 2..cmd.n : cmd.outs[i] = "ok"
    /\ cmd.task.status = FAILED

\* C30: once a command of the task has been unsuccessful, no further command
\* of that task is run.
C30_FailFast ==
    [][(cmd.pc = "running" /\ \E i \in DOMAIN cmd.outs : cmd.outs[i] # "ok")
          => cmd'.ran = cmd.ran]_vars

\* C24: when _execute_recovery_task finishes a task, every callback of the
\* list for the outcome has been called whatever the callbacks before it
\* raised, the task is Completed or Failed and is saved with that status,
\* the call goes on, and the phase check has been made: a completed phase
\* has started the next phase or completed the instance.
C24_CallbackErrorsAreIsolated ==
    [][\A t \in Threads :
          (stack[t] # <<>> /\ Top(t).cur # NoTask)
          => LET rid == Top(t).recovery_id
                 s == active_recoveries[rid].system_type
                 k == Top(t).cur
                 task == recovery_plans[s][k]
                 status == tasks'[s][k].status
                 registered == IF status = COMPLETED THEN completion_callbacks
                                                     ELSE failure_callbacks
                 kind == IF status = COMPLETED THEN "completion" ELSE "failure"
             IN (tasks[s][k].status = IN_PROGRESS /\ status # IN_PROGRESS)
                => /\ status \in {COMPLETED, FAILED}
                   /\ Len(invoked') = registered
                   /\ \A j \in DOMAIN invoked' : invoked'[j].kind = kind
                   /\ ended'[rid][k] = status
                   /\ task.id \in DOMAIN db' /\ db'[task.id].status = status
                   /\ stack'[t] # <<>>
                   /\ ret'[t] = ret[t]
                   /\ PhaseComplete(active_recoveries'[rid], s, task.phase)
                      => IF GetNextPhase(task.phase) = None
                         THEN active_recoveries'[rid].status = COMPLETED
                         ELSE /\ Len(stack'[t]) = Len(stack[t]) + 1
                              /\ stack'[t][Len(stack'[t])].phase = GetNextPhase(task.phase)]_vars

\* a callback raised, the callback after it was called, and the call of
\* initiate_recovery went on to the end with the task saved
C24_Witness ==
    /\ Len(invoked) = 2
    /\ invoked[1].outcome = "raise"
    /\ \E t \in Threads :
          /\ stack[t] = <<>>
          /\ ret[t].op = "initiate_recovery"
          /\ ret[t].state = "returned"
          /\ ret[t].recovery_id \in DOMAIN active_recoveries
          /\ active_recoveries[ret[t].recovery_id].status = COMPLETED
    /\ \E s \in SystemTypes : \E k \in TaskIdx(s) :
          /\ tasks[s][k].status = COMPLETED
          /\ recovery_plans[s][k].id \in DOMAIN db
          /\ db[recovery_plans[s][k].id].status = COMPLETED

\* task k1 comes before task k2 in the order of priority tier and, within
\* a tier, of the plan list
Before(s, k1, k2) ==
    \/ recovery_plans[s][k1].priority < recovery_plans[s][k2].priority
    \/ /\ recovery_plans[s][k1].priority = recovery_plans[s][k2].priority
       /\ k1 < k2

\* the step visits task k of the phase thread t is in: it dispatches the
\* task or skips it
Visits(t, k) ==
    /\ stack[t] # <<>>
    /\ stack'[t] # <<>>
    /\ Top(t).cur = NoTask
    /\ \/ stack'[t][Len(stack'[t])].cur = k
       \/ /\ ended[Top(t).recovery_id][k] = None
          /\ ended'[Top(t).recovery_id][k] = SKIPPED

\* C31: when a task of a phase is visited, the tasks of the phase with a
\* lower priority value, and those of the same priority earlier in the plan
\* list, have been visited, and no other task of the phase has.
C31_VisitedInPriorityOrder ==
    [][\A t \in Threads :
          stack[t] # <<>>
          => LET rid == Top(t).recovery_id
                 s == active_recoveries[rid].system_type
             IN \A k \in TaskIdx(s) :
                   Visits(t, k)
                   => \A k2 \in TaskIdx(s) \ {k} :
                         recovery_plans[s][k2].phase = recovery_plans[s][k].phase
                         => /\ Before(s, k2, k) => ended[rid][k2] # None
                            /\ Before(s, k, k2) => ended[rid][k2] = None]_vars

\* in plan "priority" the IMMEDIATE task Y, second in the list, has been
\* visited before X, and X before Z, which has the priority of X
C31_Witness ==
    \E r \in DOMAIN active_recoveries :
        /\ active_recoveries[r].system_type = "priority"
        /\ ended[r][2] # None
        /\ ended[r][1] # None
        /\ ended[r][3] = None

\* C32: with one recovery initiated and its call returned, the status the
\* instance's status map holds for each task is the status field of the task.
C32_StatusMapAgreesWithTasks ==
    n_init = 1 =>
        \A r \in DOMAIN active_recoveries :
            Returned(r) =>
                \A k \in TaskIdx(active_recoveries[r].system_type) :
                    MapStatus(active_recoveries[r],
                              recovery_plans[active_recoveries[r].system_type][k].id)
                        = tasks[active_recoveries[r].system_type][k].status

\* C33: with one recovery initiated, a task that has left Pending, or has
\* come back to it, has a record in the store with the status of the task.
C33_EveryTransitionIsPersisted ==
    n_init = 1 =>
        \A r \in DOMAIN active_recoveries :
            \A k \in TaskIdx(active_recoveries[r].system_type) :
                LET s == active_recoveries[r].system_type
                    id == recovery_plans[s][k].id
                IN (tasks[s][k].status # PENDING \/ id \in DOMAIN db)
                   => (id \in DOMAIN db /\ db[id].status = tasks[s][k].status)

\* C34: no step takes away the record the store holds of a task for a
\* recovery: the store still has the record of that task for that recovery
\* after the step.
C34_RecordPerRecoveryAndTask ==
    [][\A id \in DOMAIN db :
          /\ id \in DOMAIN db'
          /\ db'[id].system_recovery_id = db[id].system_recovery_id]_vars

\* C35: on a store whose writes may fail, a call of initiate_recovery
\* with a known system type that has ended has returned its id, and has left
\* no task InProgress.
C35_WriteFailureIsAbsorbed ==
    \A t \in Threads :
        (stack[t] = <<>> /\ ret[t].op = "initiate_recovery")
        => /\ ret[t].state = "returned"
           /\ \A s \in SystemTypes : \A k \in TaskIdx(s) : tasks[s][k].status # IN_PROGRESS

\* C36: two threads that are inside initiate_recovery for two different
\* recoveries are never executing the same task object.
C36_OneWorkerPerTask ==
    \A t1, t2 \in Workers :
        (/\ t1 # t2
         /\ stack[t1] # <<>> /\ stack[t2] # <<>>
         /\ Top(t1).recovery_id # Top(t2).recovery_id
         /\ Top(t1).cur # NoTask /\ Top(t2).cur # NoTask)
        => ~(/\ active_recoveries[Top(t1).recovery_id].system_type
                  = active_recoveries[Top(t2).recovery_id].system_type
             /\ Top(t1).cur = Top(t2).cur)

\* every task of recovery r has ended Completed and the status snapshot of
\* r reports progress 100
AllCompleted(r) ==
    /\ \A k \in TaskIdx(r[2]) : ended[r][k] = COMPLETED
    /\ LET p == GetRecoveryStatus(r)[1].progress_percentage
       IN p.num = 100 * p.den

\* C37: a recovery of a predefined plan comes to a state in which a command
\* of one of its tasks has failed or every task of the plan, the one of the
\* Recovery phase included, has ended Completed with progress 100 reported.
C37_EmptyPhaseDoesNotStopSequence ==
    \A r \in {x \in RecoveryIds : x[2] \in BuiltIn} :
        (r \in DOMAIN active_recoveries)
        ~> (/\ r \in DOMAIN active_recoveries
            /\ \/ \E k \in TaskIdx(r[2]) : ended[r][k] = FAILED
               \/ AllCompleted(r))

\* C38: a rollback_recovery call that directly follows a rollback_recovery
\* call of the same recovery in which every rollback succeeded runs the
\* rollback commands of none of the tasks the first call rolled back.
C38_SecondRollbackRunsNothingAgain ==
    [][\A t \in Threads :
          (/\ ret[t].op = "rollback_recovery"
           /\ ret[t].recovery_id \in DOMAIN active_recoveries
           /\ ret[t].success
           /\ n_rb' = n_rb + 1
           /\ ret'[t].recovery_id = ret[t].recovery_id)
          => \A i \in DOMAIN ret'[t].trace : \A j \in DOMAIN ret[t].trace :
                ret'[t].trace[i].task # ret[t].trace[j].task]_vars

\* C39: the step that ends the execution of a task calls each completion
\* callback once, and no failure callback, when the task ends Completed, and
\* each failure callback once, and no completion callback, when it ends
\* Failed; each call is handed the task in that status; the step that skips
\* a task calls no callback.  (Entry j of invoked is the call of the j-th
\* callback of the list.)
C39_OneCallbackGroupPerExecution ==
    [][\A t \in Threads :
          stack[t] # <<>>
          => LET rid == Top(t).recovery_id
                 s == active_recoveries[rid].system_type
                 k == Top(t).cur
             IN /\ (/\ k # NoTask
                    /\ tasks[s][k].status = IN_PROGRESS
                    /\ tasks'[s][k].status # IN_PROGRESS)
                   => /\ tasks'[s][k].status = COMPLETED
                         => /\ Len(invoked') = completion_callbacks
                            /\ \A j \in DOMAIN invoked' : invoked'[j].kind = "completion"
                      /\ tasks'[s][k].status = FAILED
                         => /\ Len(invoked') = failure_callbacks
                            /\ \A j \in DOMAIN invoked' : invoked'[j].kind = "failure"
                      /\ \A j \in DOMAIN invoked' : invoked'[j].status = tasks'[s][k].status
                /\ (/\ k = NoTask
                    /\ \E k2 \in TaskIdx(s) :
                          ended[rid][k2] # SKIPPED /\ ended'[rid][k2] = SKIPPED)
                   => invoked' = invoked]_vars

\* with callbacks of both kinds registered, a task has ended Failed and the
\* two failure callbacks, and only they, were called with the failed task
C39_Witness ==
    /\ completion_callbacks >= 1
    /\ failure_callbacks = 2
    /\ Len(invoked) = 2
    /\ \A j \in DOMAIN invoked : invoked[j].kind = "failure" /\ invoked[j].status = FAILED
    /\ \E s \in SystemTypes : \E k \in TaskIdx(s) : tasks[s][k].status = FAILED

\* the recovery instances the orchestrator holds for incident i
InstancesOf(i) == {r \in DOMAIN active_recoveries : active_recoveries[r].incident_id = i}

\* C40: the orchestrator holds at most one recovery instance for an
\* incident, whatever the calls the monitor made for it did.
C40_OneRecoveryPerIncident ==
    \A i \in Incidents : Cardinality(InstancesOf(i)) <= 1

====
